---- MODULE Spec2Model ----
(***************************************************************************)
(* A model of AsyncOpenAISimpleAgent (AsyncAgentic): one send_message turn  *)
(* as a sequence of suspendable phases (hook emission, model-backend call,  *)
(* tool dispatch), the concurrent and the sequential tool dispatcher, the   *)
(* history store and the response formatting.                               *)
(*                                                                          *)
(* Python values are represented as follows.  A dict is a TLA+ record whose *)
(* DOMAIN is the dict's key set; a value that is not a dict is a record     *)
(* with the single field pytype.  None is the string NoneVal.  A list       *)
(* is an object of the heap, named by its id, so that two names of one list *)
(* are told from a list and its copy.  An exception is a record             *)
(* [type, msg, origin]; str(e) is its msg.  A frame is the set of locals of *)
(* one running send_message coroutine.                                      *)
(***************************************************************************)
EXTENDS Integers, Sequences, FiniteSets, TLC

\* ---------------------------------------------------------------- bounds
MaxHist == 2      \* longest caller-supplied history
MaxCalls == 2     \* most tool calls carried by one assistant reply
MaxRounds == 1    \* most tool rounds the backend asks for in one turn
MaxTurns == 1     \* turns started on the agent instance

Frames == {1, 2}

VARIABLES
    heap,              \* the list objects: object id -> the list's items
    _message_history,  \* self._message_history: the id of the History Store's list
    execute_function_concurrently,   \* the agent's dispatch mode
    frames,            \* the locals of each send_message coroutine
    turns_started      \* number of send_message calls made so far

vars == <<heap, _message_history, execute_function_concurrently, frames,
          turns_started>>

\* list objects: the one made by __init__, and per frame the caller's history
\* argument, the list made by _validate_history, the one made by
\* _get_complete_history and the simplified history made by _format_response
InitList == <<"init", 0>>

CallerList(t) == <<"caller", t>>

StoreList(t) == <<"store", t>>

ResultList(t) == <<"result", t>>

SimplifiedList(t) == <<"simplified", t>>

ObjIds == {InitList} \cup {CallerList(t) : t \in Frames}
          \cup {StoreList(t) : t \in Frames} \cup {ResultList(t) : t \in Frames}
          \cup {SimplifiedList(t) : t \in Frames}

\* ------------------------------------------------------- Python values
NoneVal == "<None>"

Truthy(v) == v \notin {NoneVal, ""}

PyStr(v) == IF v = NoneVal THEN "None" ELSE v

Min(S) == CHOOSE x \in S : \A y \in S : x <= y

SeqUpTo(S, n) == UNION {[1..k -> S] : k \in 0..n}

\* ----------------------------------------------------------- exceptions
NoExc == [type |-> "", msg |-> "", origin |-> 0]

Exc(type, msg, origin) == [type |-> type, msg |-> msg, origin |-> origin]

HookEvents == {"on_before_request", "on_after_request", "on_manual_stop", "on_error",
               "on_function_call_start", "on_function_call_end",
               "on_function_call_error"}

\* the fault of a callback registered for event, raised while serving call origin
HookError(event, origin) == Exc("HookError", event, origin)

BackendError == Exc("BackendError", "backend unavailable", 0)

\* ------------------------------------------------------------- messages
SystemPrompt == "You are a helpful assistant that can check time and weather"

AgentName == "Test_Agent"

UserMsg(c) == [role |-> "user", content |-> c]

AssistantMsg(c) == [role |-> "assistant", content |-> c]

SystemMsg(c) == [role |-> "system", content |-> c]

NotADict == [pytype |-> "str"]

IsDict(m) == "pytype" \notin DOMAIN m

\* what a caller may put into a prior history
HistEntries == {UserMsg("u1"), AssistantMsg("a0"), SystemMsg("s0"),
                [content |-> "x"], [role |-> "user"], NotADict}

UserMessages == {"u1"}

HistoryInputs ==
    {[pytype |-> "list", items |-> s] : s \in SeqUpTo(HistEntries, MaxHist)}
    \cup {[pytype |-> "tuple", items |-> <<UserMsg("u1")>>]}

\* ------------------------------------------------- tools (test registry)
ContextArgs == {<<"user_id", "test_user">>, <<"chat_id", "test_chat">>,
                <<"agent_name", "Test_Agent">>}

ToolParams == [get_current_time |-> {"user_id", "chat_id", "agent_name"},
               get_weather |-> {"city", "user_id", "chat_id", "agent_name"}]

ToolRegistry == <<"get_current_time", "get_weather">>

tool_map == {ToolRegistry[i] : i \in 1..Len(ToolRegistry)}

ArgStr(s) == [str |-> s]

ArgDict(d) == [dict |-> d]

\* json.loads on the argument texts the backend may send: a decoded mapping is
\* the set of its <<key, value>> pairs
JsonLoads(s) ==
    CASE s = "{}" -> [ok |-> TRUE, value |-> {}, exc |-> NoExc]
      [] s = "{\"city\": \"Tokyo\"}" ->
            [ok |-> TRUE, value |-> {<<"city", "Tokyo">>}, exc |-> NoExc]
      [] OTHER -> [ok |-> FALSE, value |-> {},
                   exc |-> Exc("JSONDecodeError",
                               "Expecting property name enclosed in double quotes", 0)]

\* await tool["func"](**args): the registered callables of the test
ToolFunc(name, args) ==
    LET keys == {p[1] : p \in args} IN
    IF keys # ToolParams[name]
    THEN [ok |-> FALSE, value |-> NoneVal,
          exc |-> Exc("TypeError", "unexpected or missing keyword argument", 0)]
    ELSE IF name = "get_current_time"
    THEN [ok |-> TRUE, value |-> "12:00:00", exc |-> NoExc]
    ELSE [ok |-> TRUE, value |-> "Sunny, 22C in Tokyo", exc |-> NoExc]

\* the kinds of tool call the backend may request: <<name, arguments>>
CallKinds == {<<"get_current_time", ArgStr("{}")>>,
              <<"get_weather", ArgStr("{\"city\": \"Tokyo\"}")>>,
              <<"get_weather", ArgStr("{bad")>>,
              <<"get_weather", ArgDict({})>>,
              <<"unknown_tool", ArgStr("{}")>>}

ToolCall(id, kind) == [id |-> id, name |-> kind[1], arguments |-> kind[2]]

NoResponse == [content |-> NoneVal, tool_calls |-> <<>>, usage |-> NoneVal]

Reply(content, tool_calls) ==
    [content |-> content, tool_calls |-> tool_calls, usage |-> "usage"]

ReplyContents == {NoneVal, "a1"}

\* the replies the backend may give in a round that starts after `rounds` tool
\* rounds: tool-call ids are unique within the turn
Replies(rounds) ==
    {Reply(c, <<>>) : c \in ReplyContents}
    \cup (IF rounds >= MaxRounds THEN {}
          ELSE {Reply(c, [i \in 1..Len(ks) |->
                            ToolCall(rounds * (MaxCalls + 1) + i, ks[i])]) :
                  c \in ReplyContents,
                  ks \in SeqUpTo(CallKinds, MaxCalls) \ {<<>>}})

\* --------------------------------------------------------- history store
ValueError(msg) == Exc("ValueError", msg, 0)

\* the first complaint _validate_history has about entry m, "" if none
EntryComplaint(m) ==
    IF ~IsDict(m) THEN "History messages must be dictionaries"
    ELSE IF "role" \notin DOMAIN m THEN "History messages must have 'role' field"
    ELSE IF "content" \notin DOMAIN m THEN "History messages must have 'content' field"
    ELSE ""

\* _validate_history handing back the caller's list itself (return history)
ValidateHistoryNoCopy(h, history, fresh) ==
    LET items == h[history.ref]
        bad == {i \in 1..Len(items) : EntryComplaint(items[i]) # ""}
    IN  IF Len(items) = 0
        THEN [ok |-> TRUE, ref |-> fresh, heap |-> [h EXCEPT ![fresh] = <<>>],
              exc |-> NoExc]
        ELSE IF history.pytype # "list"
        THEN [ok |-> FALSE, ref |-> fresh, heap |-> h,
              exc |-> ValueError("History must be a list")]
        ELSE IF bad # {}
        THEN [ok |-> FALSE, ref |-> fresh, heap |-> h,
              exc |-> ValueError(EntryComplaint(items[Min(bad)]))]
        ELSE [ok |-> TRUE, ref |-> history.ref, heap |-> h, exc |-> NoExc]

\* _validate_history on the argument history = [pytype, ref] in heap h: the list
\* it returns (a new object, fresh) and the heap after it, or the ValueError
_validate_history(h, history, fresh) ==
    LET items == h[history.ref]
        bad == {i \in 1..Len(items) : EntryComplaint(items[i]) # ""}
    IN  IF Len(items) = 0
        THEN [ok |-> TRUE, ref |-> fresh, heap |-> [h EXCEPT ![fresh] = <<>>],
              exc |-> NoExc]
        ELSE IF history.pytype # "list"
        THEN [ok |-> FALSE, ref |-> fresh, heap |-> h,
              exc |-> ValueError("History must be a list")]
        ELSE IF bad # {}
        THEN [ok |-> FALSE, ref |-> fresh, heap |-> h,
              exc |-> ValueError(EntryComplaint(items[Min(bad)]))]
        ELSE [ok |-> TRUE, ref |-> fresh, heap |-> [h EXCEPT ![fresh] = items],
              exc |-> NoExc]

\* self._message_history.append(message), on the list self names now
_add_to_history(h, self_history, message) ==
    [h EXCEPT ![self_history] = Append(@, message)]

\* self._message_history.copy(): a new list object
_get_complete_history(h, self_history, fresh) ==
    [ref |-> fresh, heap |-> [h EXCEPT ![fresh] = h[self_history]]]

\* _prepare_messages(message, history): the outbound message list
_prepare_messages(message, history) ==
    LET sys == IF Len(history) = 0 \/ history[1].role # "system"
               THEN <<SystemMsg(SystemPrompt)>> ELSE <<>>
        usr == IF Len(history) = 0 \/ history[Len(history)].content # message
               THEN <<UserMsg(message)>> ELSE <<>>
    IN  sys \o history \o usr

\* the assistant message send_message builds from a backend reply
AssistantMessage(response) ==
    IF Len(response.tool_calls) > 0
    THEN [role |-> "assistant", content |-> response.content,
          tool_calls |-> [i \in 1..Len(response.tool_calls) |->
              [id |-> response.tool_calls[i].id, type |-> "function",
               function |-> [name |-> response.tool_calls[i].name,
                             arguments |-> response.tool_calls[i].arguments]]]]
    ELSE [role |-> "assistant", content |-> response.content]

\* the tool message under the role of the legacy function-calling protocol
ToolMessageLegacyRole(result) ==
    [role |-> "function", tool_call_id |-> result.tool_call_id,
     content |-> PyStr(result.result)]

ToolMessage(result) ==
    [role |-> "tool", tool_call_id |-> result.tool_call_id,
     content |-> PyStr(result.result)]

RECURSIVE CleanHistoryRoleOnly(_)
\* the simplified history with the assistant entries reduced to their role
CleanHistoryRoleOnly(complete) ==
    IF Len(complete) = 0 THEN <<>>
    ELSE (IF complete[1].role = "user" THEN <<complete[1]>>
          ELSE IF complete[1].role = "assistant" /\ Truthy(complete[1].content)
          THEN <<[role |-> "assistant"]>>
          ELSE <<>>) \o CleanHistoryRoleOnly(Tail(complete))

RECURSIVE CleanHistoryWhole(_)
\* the simplified history with the kept assistant messages passed on whole
CleanHistoryWhole(complete) ==
    IF Len(complete) = 0 THEN <<>>
    ELSE (IF complete[1].role = "user" THEN <<complete[1]>>
          ELSE IF complete[1].role = "assistant" /\ Truthy(complete[1].content)
          THEN <<complete[1]>>
          ELSE <<>>) \o CleanHistoryWhole(Tail(complete))

RECURSIVE CleanHistory(_)
\* the simplified history _format_response builds from the complete one
CleanHistory(complete) ==
    IF Len(complete) = 0 THEN <<>>
    ELSE (IF complete[1].role = "user" THEN <<complete[1]>>
          ELSE IF complete[1].role = "assistant" /\ Truthy(complete[1].content)
          THEN <<AssistantMsg(complete[1].content)>>
          ELSE <<>>) \o CleanHistory(Tail(complete))

NoResult == [stop_reason |-> "", messages |-> InitList, simplified |-> <<>>,
             agent_name |-> "", output |-> NoneVal, usage |-> NoneVal]

\* _format_response: the result (its full history a new list object) and the heap
_format_response(h, self_history, fresh, response, stop_reason) ==
    LET complete_history == _get_complete_history(h, self_history, fresh) IN
    [heap |-> complete_history.heap,
     result |-> [stop_reason |-> stop_reason,
                 messages |-> complete_history.ref,
                 simplified |-> CleanHistory(complete_history.heap[complete_history.ref]),
                 agent_name |-> AgentName,
                 output |-> IF response = NoResponse THEN NoneVal ELSE response.content,
                 usage |-> IF response = NoResponse THEN NoneVal ELSE response.usage]]

\* ------------------------------------------------------ cancellation, hooks
\* _run_with_stop_handler's second result: the phase has returned, and the
\* turn's stop request, if any, is seen now
was_stopped(f) == f.stop

\* a callback returns (TRUE) or raises (FALSE)
HookOutcomes == BOOLEAN

\* _trigger_hook(event, ...): the event is emitted to its callbacks, which return
\* (ok) or raise; hook_faults keeps the events whose callback raised in this turn
_trigger_hook(f, event, ok) ==
    [f EXCEPT !.hooks[event] = @ + 1,
              !.hook_faults = IF ok THEN @ ELSE @ \cup {event}]

\* ------------------------------------------------------------------ frames
NoRet == [tool_call_id |-> 0, name |-> "", result |-> NoneVal]

NoOutcome == [kind |-> "none", result |-> NoResult, exc |-> NoExc]

Returned(r) == [kind |-> "result", result |-> r, exc |-> NoExc]

Raised(e) == [kind |-> "raised", result |-> NoResult, exc |-> e]

NoHistoryArg == [pytype |-> "list", ref |-> InitList]

InitFrame ==
    [pc |-> "idle", message |-> NoneVal, history |-> NoHistoryArg, messages |-> <<>>,
     result |-> NoResponse, response |-> NoResponse, tool_calls |-> <<>>,
     tasks |-> <<>>, cur |-> 1, completion |-> <<>>, results |-> <<>>,
     exc |-> NoExc, stop |-> FALSE, stop_at |-> "", outcome |-> NoOutcome,
     backend_calls |-> 0, rounds |-> 0, hooks |-> [e \in HookEvents |-> 0],
     hook_faults |-> {}, overlapped |-> FALSE]

InFlight(f) == f.pc \notin {"idle", "done"}

\* an exception reaches send_message's except clause
Except(f, e) == [f EXCEPT !.pc = "on_error", !.exc = e]

Init ==
    /\ heap = [o \in ObjIds |-> <<>>]
    /\ _message_history = InitList
    /\ execute_function_concurrently \in BOOLEAN
    /\ frames = [t \in Frames |-> InitFrame]
    /\ turns_started = 0

\* ------------------------------------------------------------ send_message
\* send_message leaving the user message to _prepare_messages alone: the
\* History Store is not told of it
SendMessageNoRecord(t, message, history) ==
    /\ frames[t].pc \in {"idle", "done"}
    /\ turns_started < MaxTurns
    /\ turns_started' = turns_started + 1
    /\ LET h0 == [heap EXCEPT ![CallerList(t)] = history.items, ![ResultList(t)] = <<>>]
           arg == [pytype |-> history.pytype, ref |-> CallerList(t)]
           f0 == [InitFrame EXCEPT !.message = message, !.history = arg]
           safe_history == _validate_history(h0, arg, StoreList(t))
       IN  IF safe_history.ok
           THEN /\ heap' = safe_history.heap
                /\ _message_history' = safe_history.ref
                /\ frames' = [frames EXCEPT ![t] = [f0 EXCEPT !.pc = "before_request"]]
           ELSE /\ heap' = h0
                /\ UNCHANGED _message_history
                /\ frames' = [frames EXCEPT ![t] = Except(f0, safe_history.exc)]
    /\ UNCHANGED execute_function_concurrently

\* send_message without the rebinding of self._message_history: the user message
\* goes to the list the History Store already has
StartTurnKeepsStore(t, message, arg, h0) ==
    LET f0 == [InitFrame EXCEPT !.message = message, !.history = arg,
                                !.overlapped = \E o \in Frames \ {t} :
                                                   InFlight(frames[o])]
        others == [o \in Frames |->
                      IF o # t /\ InFlight(frames[o])
                      THEN [frames[o] EXCEPT !.overlapped = TRUE]
                      ELSE frames[o]]
        safe_history == _validate_history(h0, arg, StoreList(t))
    IN  IF safe_history.ok
        THEN /\ heap' = _add_to_history(safe_history.heap, _message_history,
                                        UserMsg(message))
             /\ UNCHANGED _message_history
             /\ frames' = [others EXCEPT ![t] = [f0 EXCEPT !.pc = "before_request"]]
        ELSE /\ heap' = h0
             /\ UNCHANGED _message_history
             /\ frames' = [others EXCEPT ![t] = Except(f0, safe_history.exc)]

\* the body of send_message up to its first suspension, on the history argument
\* arg in heap h0: validate, rebind, record the user message.  overlapped notes,
\* on this turn and on the turns in flight, that they share the instance.
StartTurn(t, message, arg, h0) ==
    LET f0 == [InitFrame EXCEPT !.message = message, !.history = arg,
                                !.overlapped = \E o \in Frames \ {t} :
                                                   InFlight(frames[o])]
        others == [o \in Frames |->
                      IF o # t /\ InFlight(frames[o])
                      THEN [frames[o] EXCEPT !.overlapped = TRUE]
                      ELSE frames[o]]
        safe_history == _validate_history(h0, arg, StoreList(t))
    IN  IF safe_history.ok
        THEN /\ heap' = _add_to_history(safe_history.heap, safe_history.ref,
                                        UserMsg(message))
             /\ _message_history' = safe_history.ref
             /\ frames' = [others EXCEPT ![t] = [f0 EXCEPT !.pc = "before_request"]]
        ELSE /\ heap' = h0
             /\ UNCHANGED _message_history
             /\ frames' = [others EXCEPT ![t] = Except(f0, safe_history.exc)]

\* send_message(message, history) called on the instance
SendMessage(t, message, history) ==
    /\ frames[t].pc \in {"idle", "done"}
    /\ turns_started < MaxTurns
    /\ turns_started' = turns_started + 1
    /\ StartTurn(t, message, [pytype |-> history.pytype, ref |-> CallerList(t)],
                 [heap EXCEPT ![CallerList(t)] = history.items,
                              ![ResultList(t)] = <<>>])
    /\ UNCHANGED execute_function_concurrently

\* send_message(message, history=response["history"]["simplified"]): the caller
\* hands the simplified history of the result it got to the following turn
SendMessageSeeded(t, message) ==
    /\ frames[t].pc = "done"
    /\ frames[t].outcome.kind = "result"
    /\ frames[t].history.ref # SimplifiedList(t)
    /\ turns_started <= MaxTurns
    /\ turns_started' = turns_started + 1
    /\ StartTurn(t, message, [pytype |-> "list", ref |-> SimplifiedList(t)],
                 [heap EXCEPT ![SimplifiedList(t)] = frames[t].outcome.result.simplified,
                              ![CallerList(t)] = <<>>,
                              ![ResultList(t)] = <<>>])
    /\ UNCHANGED execute_function_concurrently

\* send_message called by a second caller on the instance another caller has
\* already called: nothing in the agent keeps the two turns apart
SendMessageSecondCaller(t, message, history) ==
    /\ frames[t].pc = "idle"
    /\ \E o \in Frames \ {t} : frames[o].pc # "idle"
    /\ turns_started' = turns_started + 1
    /\ StartTurn(t, message, [pytype |-> history.pytype, ref |-> CallerList(t)],
                 [heap EXCEPT ![CallerList(t)] = history.items,
                              ![ResultList(t)] = <<>>])
    /\ UNCHANGED execute_function_concurrently

\* the outbound message list prepared without the on_before_request emission
BeforeRequestUnannounced(t) ==
    /\ frames[t].pc = "before_request"
    /\ frames' = [frames EXCEPT ![t] =
          [@ EXCEPT !.pc = "call_model",
                    !.messages = _prepare_messages(frames[t].message,
                                                   heap[_message_history])]]
    /\ UNCHANGED <<heap, _message_history, execute_function_concurrently, turns_started>>

\* on_before_request, then the outbound message list
BeforeRequest(t) ==
    /\ frames[t].pc = "before_request"
    /\ \E ok \in HookOutcomes :
         LET f == _trigger_hook(frames[t], "on_before_request", ok) IN
         frames' = [frames EXCEPT ![t] =
            IF ok
            THEN [f EXCEPT !.pc = "call_model",
                           !.messages = _prepare_messages(f.message,
                                                          heap[_message_history])]
            ELSE Except(f, HookError("on_before_request", 0))]
    /\ UNCHANGED <<heap, _message_history, execute_function_concurrently, turns_started>>

RECURSIVE Resolved(_)
\* the tool calls whose name is in self._tool_map, in request order
Resolved(tool_calls) ==
    IF Len(tool_calls) = 0 THEN <<>>
    ELSE (IF tool_calls[1].name \in tool_map THEN <<tool_calls[1]>> ELSE <<>>)
         \o Resolved(Tail(tool_calls))

NewTask(tool_call) ==
    [call |-> tool_call, pc |-> "start", value |-> NoneVal, err |-> NoExc,
     ret |-> NoRet, raised |-> NoExc]

\* one _execute_tool coroutine per resolved tool call
StartTasks(tool_calls) ==
    [i \in 1..Len(Resolved(tool_calls)) |-> NewTask(Resolved(tool_calls)[i])]

\* the backend call returns or fails; the stop check; the assistant message
CallModel(t) ==
    /\ frames[t].pc = "call_model"
    /\ \/ /\ frames' = [frames EXCEPT ![t] =
                  Except([@ EXCEPT !.backend_calls = @ + 1], BackendError)]
          /\ UNCHANGED heap
       \/ \E reply \in Replies(frames[t].rounds) :
            LET f == [frames[t] EXCEPT !.backend_calls = @ + 1, !.result = reply]
                assistant_message == AssistantMessage(reply)
            IN  IF was_stopped(f)
                THEN /\ frames' = [frames EXCEPT ![t] = [f EXCEPT !.pc = "manual_stop"]]
                     /\ UNCHANGED heap
                ELSE /\ heap' = _add_to_history(heap, _message_history, assistant_message)
                     /\ frames' = [frames EXCEPT ![t] =
                          IF Len(reply.tool_calls) = 0
                          THEN [f EXCEPT !.response = reply,
                                         !.messages = Append(@, assistant_message),
                                         !.pc = "after_request"]
                          ELSE [f EXCEPT !.response = reply,
                                         !.messages = Append(@, assistant_message),
                                         !.pc = "dispatch",
                                         !.tool_calls = reply.tool_calls,
                                         !.tasks = StartTasks(reply.tool_calls),
                                         !.cur = 1, !.completion = <<>>,
                                         !.results = <<>>,
                                         !.rounds = @ + 1]]
    /\ UNCHANGED <<_message_history, execute_function_concurrently, turns_started>>

\* ------------------------------------------------------------ tool dispatch
\* which invocation may take its next step: any unfinished one under
\* asyncio.gather, the loop's current one in _execute_tools_sequential
Schedulable(f, i) ==
    /\ f.pc = "dispatch"
    /\ i \in 1..Len(f.tasks)
    /\ f.tasks[i].pc # "done"
    /\ execute_function_concurrently \/ i = f.cur

ToolResult(tool_call, value) ==
    [tool_call_id |-> tool_call.id, name |-> tool_call.name, result |-> value]

\* invocation i raises out of _execute_tool under a gather that does not keep
\* exceptions: the first fault propagates at once
UncaughtPropagatesAtOnce(f, i, e) == Except(f, e)

\* invocation i raises out of _execute_tool: gather keeps the exception as the
\* task's outcome, the sequential loop lets it propagate to send_message
Uncaught(f, i, e) ==
    IF execute_function_concurrently
    THEN [f EXCEPT !.tasks[i].pc = "done", !.tasks[i].raised = e,
                   !.completion = Append(@, i)]
    ELSE Except(f, e)

\* invocation i returns ret from _execute_tool
TaskReturns(f, i, ret) ==
    IF execute_function_concurrently
    THEN [f EXCEPT !.tasks[i].pc = "done", !.tasks[i].ret = ret,
                   !.completion = Append(@, i)]
    ELSE [f EXCEPT !.tasks[i].pc = "done", !.tasks[i].ret = ret,
                   !.completion = Append(@, i),
                   !.cur = @ + 1,
                   !.results = IF DOMAIN ret # {} THEN Append(@, ret) ELSE @]

\* _execute_tool: on_function_call_start, outside the try
TaskStart(t, i) ==
    /\ Schedulable(frames[t], i)
    /\ frames[t].tasks[i].pc = "start"
    /\ \E ok \in HookOutcomes :
         LET f == _trigger_hook(frames[t], "on_function_call_start", ok) IN
         frames' = [frames EXCEPT ![t] =
            IF ok THEN [f EXCEPT !.tasks[i].pc = "run"]
            ELSE Uncaught(f, i, HookError("on_function_call_start",
                                          f.tasks[i].call.id))]
    /\ UNCHANGED <<heap, _message_history, execute_function_concurrently, turns_started>>

\* the decoded arguments of a tool call, or the decode error
DecodeArguments(arguments) ==
    IF "str" \in DOMAIN arguments
    THEN JsonLoads(arguments.str)
    ELSE [ok |-> TRUE, value |-> arguments.dict, exc |-> NoExc]

\* what the try block of _execute_tool gets up to the tool's return
InvokeTool(tool_call) ==
    LET arguments == DecodeArguments(tool_call.arguments) IN
    IF ~arguments.ok THEN arguments
    ELSE ToolFunc(tool_call.name, arguments.value \cup ContextArgs)

\* _execute_tool: decode the arguments and await the tool
TaskRun(t, i) ==
    /\ Schedulable(frames[t], i)
    /\ frames[t].tasks[i].pc = "run"
    /\ LET out == InvokeTool(frames[t].tasks[i].call) IN
       frames' = [frames EXCEPT ![t] =
          IF out.ok
          THEN [@ EXCEPT !.tasks[i].pc = "end_hook", !.tasks[i].value = out.value]
          ELSE [@ EXCEPT !.tasks[i].pc = "error_hook", !.tasks[i].err = out.exc]]
    /\ UNCHANGED <<heap, _message_history, execute_function_concurrently, turns_started>>

\* _execute_tool: on_function_call_end, inside the try, then the return
TaskEndHook(t, i) ==
    /\ Schedulable(frames[t], i)
    /\ frames[t].tasks[i].pc = "end_hook"
    /\ \E ok \in HookOutcomes :
         LET f == _trigger_hook(frames[t], "on_function_call_end", ok)
             task == f.tasks[i]
         IN  frames' = [frames EXCEPT ![t] =
                IF ok THEN TaskReturns(f, i, ToolResult(task.call, task.value))
                ELSE [f EXCEPT !.tasks[i].pc = "error_hook",
                               !.tasks[i].err =
                                   HookError("on_function_call_end", task.call.id)]]
    /\ UNCHANGED <<heap, _message_history, execute_function_concurrently, turns_started>>

\* the except clause of _execute_tool with its commented-out "raise e" active
TaskErrorHookReraise(t, i) ==
    /\ Schedulable(frames[t], i)
    /\ frames[t].tasks[i].pc = "error_hook"
    /\ \E ok \in HookOutcomes :
         LET f == _trigger_hook(frames[t], "on_function_call_error", ok)
             task == f.tasks[i]
         IN  frames' = [frames EXCEPT ![t] =
                IF ok THEN Uncaught(f, i, task.err)
                ELSE Uncaught(f, i, HookError("on_function_call_error",
                                              task.call.id))]
    /\ UNCHANGED <<heap, _message_history, execute_function_concurrently, turns_started>>

\* _execute_tool: the except clause, on_function_call_error, then the return
TaskErrorHook(t, i) ==
    /\ Schedulable(frames[t], i)
    /\ frames[t].tasks[i].pc = "error_hook"
    /\ \E ok \in HookOutcomes :
         LET f == _trigger_hook(frames[t], "on_function_call_error", ok)
             task == f.tasks[i]
         IN  frames' = [frames EXCEPT ![t] =
                IF ok THEN TaskReturns(f, i, ToolResult(task.call, task.err.msg))
                ELSE Uncaught(f, i, HookError("on_function_call_error",
                                              task.call.id))]
    /\ UNCHANGED <<heap, _message_history, execute_function_concurrently, turns_started>>

IsException(r) == "type" \in DOMAIN r

\* the outcomes collected as the tasks complete (asyncio.as_completed)
GatherAsCompleted(f) ==
    [k \in 1..Len(f.tasks) |->
        IF f.tasks[f.completion[k]].raised # NoExc
        THEN f.tasks[f.completion[k]].raised
        ELSE f.tasks[f.completion[k]].ret]

\* asyncio.gather(*tasks, return_exceptions=True): one outcome per task, in the
\* order of the tasks
Gather(f) ==
    [i \in 1..Len(f.tasks) |->
        IF f.tasks[i].raised # NoExc THEN f.tasks[i].raised ELSE f.tasks[i].ret]

\* what the dispatcher hands back: [raised, results]
DispatchOutcome(f) ==
    IF execute_function_concurrently
    THEN LET results == Gather(f)
             faults == {i \in 1..Len(results) : IsException(results[i])}
         IN  IF faults # {}
             THEN [raised |-> results[Min(faults)], results |-> <<>>]
             ELSE [raised |-> NoExc, results |-> results]
    ELSE [raised |-> NoExc, results |-> f.results]

RECURSIVE ToolMessages(_)
ToolMessages(tool_results) ==
    IF Len(tool_results) = 0 THEN <<>>
    ELSE <<ToolMessage(tool_results[1])>> \o ToolMessages(Tail(tool_results))

\* the dispatcher's return with the tool messages recorded before the stop check
DispatchReturnRecordsFirst(t) ==
    /\ frames[t].pc = "dispatch"
    /\ \A i \in 1..Len(frames[t].tasks) : frames[t].tasks[i].pc = "done"
    /\ LET f == frames[t]
           out == DispatchOutcome(f)
           recorded == [heap EXCEPT ![_message_history] = @ \o ToolMessages(out.results)]
           formatted == _format_response(recorded, _message_history, ResultList(t),
                                         f.response, "manual_stop")
       IN  IF out.raised # NoExc
           THEN /\ frames' = [frames EXCEPT ![t] = Except(f, out.raised)]
                /\ UNCHANGED heap
           ELSE IF was_stopped(f)
           THEN /\ frames' = [frames EXCEPT ![t] =
                     [f EXCEPT !.pc = "done", !.outcome = Returned(formatted.result)]]
                /\ heap' = formatted.heap
           ELSE /\ frames' = [frames EXCEPT ![t] =
                     [f EXCEPT !.pc = "call_model", !.results = out.results,
                               !.messages = @ \o ToolMessages(out.results)]]
                /\ heap' = recorded
    /\ UNCHANGED <<_message_history, execute_function_concurrently, turns_started>>

\* the dispatcher's return with a stop rolling the stopped round back: the
\* assistant reply that asked for the tools is taken out of the History Store
DispatchReturnDropsRound(t) ==
    /\ frames[t].pc = "dispatch"
    /\ \A i \in 1..Len(frames[t].tasks) : frames[t].tasks[i].pc = "done"
    /\ LET f == frames[t]
           out == DispatchOutcome(f)
           rolled == [heap EXCEPT ![_message_history] = SubSeq(@, 1, Len(@) - 1)]
           formatted == _format_response(rolled, _message_history, ResultList(t),
                                         f.response, "manual_stop")
       IN  IF out.raised # NoExc
           THEN /\ frames' = [frames EXCEPT ![t] = Except(f, out.raised)]
                /\ UNCHANGED heap
           ELSE IF was_stopped(f)
           THEN /\ frames' = [frames EXCEPT ![t] =
                     [f EXCEPT !.pc = "done", !.outcome = Returned(formatted.result)]]
                /\ heap' = formatted.heap
           ELSE /\ frames' = [frames EXCEPT ![t] =
                     [f EXCEPT !.pc = "call_model", !.results = out.results,
                               !.messages = @ \o ToolMessages(out.results)]]
                /\ heap' = [heap EXCEPT ![_message_history] =
                                @ \o ToolMessages(out.results)]
    /\ UNCHANGED <<_message_history, execute_function_concurrently, turns_started>>

\* the dispatcher's return under a round cap of one: after the tool messages of
\* the first round the loop is left instead of calling the backend again
DispatchReturnRoundCap(t) ==
    /\ frames[t].pc = "dispatch"
    /\ \A i \in 1..Len(frames[t].tasks) : frames[t].tasks[i].pc = "done"
    /\ LET f == frames[t]
           out == DispatchOutcome(f)
           formatted == _format_response(heap, _message_history, ResultList(t),
                                         f.response, "manual_stop")
       IN  IF out.raised # NoExc
           THEN /\ frames' = [frames EXCEPT ![t] = Except(f, out.raised)]
                /\ UNCHANGED heap
           ELSE IF was_stopped(f)
           THEN /\ frames' = [frames EXCEPT ![t] =
                     [f EXCEPT !.pc = "done", !.outcome = Returned(formatted.result)]]
                /\ heap' = formatted.heap
           ELSE /\ frames' = [frames EXCEPT ![t] =
                     [f EXCEPT !.pc = IF f.rounds >= 1 THEN "after_request"
                                      ELSE "call_model",
                               !.results = out.results,
                               !.messages = @ \o ToolMessages(out.results)]]
                /\ heap' = [heap EXCEPT ![_message_history] =
                                @ \o ToolMessages(out.results)]
    /\ UNCHANGED <<_message_history, execute_function_concurrently, turns_started>>

\* the dispatcher returns: the stop check, then one tool message per result
DispatchReturn(t) ==
    /\ frames[t].pc = "dispatch"
    /\ \A i \in 1..Len(frames[t].tasks) : frames[t].tasks[i].pc = "done"
    /\ LET f == frames[t]
           out == DispatchOutcome(f)
           formatted == _format_response(heap, _message_history, ResultList(t),
                                         f.response, "manual_stop")
       IN  IF out.raised # NoExc
           THEN /\ frames' = [frames EXCEPT ![t] = Except(f, out.raised)]
                /\ UNCHANGED heap
           ELSE IF was_stopped(f)
           THEN /\ frames' = [frames EXCEPT ![t] =
                     [f EXCEPT !.pc = "done", !.outcome = Returned(formatted.result)]]
                /\ heap' = formatted.heap
           ELSE /\ frames' = [frames EXCEPT ![t] =
                     [f EXCEPT !.pc = "call_model", !.results = out.results,
                               !.messages = @ \o ToolMessages(out.results)]]
                /\ heap' = [heap EXCEPT ![_message_history] =
                                @ \o ToolMessages(out.results)]
    /\ UNCHANGED <<_message_history, execute_function_concurrently, turns_started>>

\* ------------------------------------------------------------ turn endings
\* the stop seen after the backend call: on_manual_stop, then the result
ManualStop(t) ==
    /\ frames[t].pc = "manual_stop"
    /\ \E ok \in HookOutcomes :
         LET f == _trigger_hook(frames[t], "on_manual_stop", ok)
             formatted == _format_response(heap, _message_history, ResultList(t),
                                           f.result, "manual_stop")
         IN  IF ok
             THEN /\ frames' = [frames EXCEPT ![t] =
                       [f EXCEPT !.pc = "done", !.outcome = Returned(formatted.result)]]
                  /\ heap' = formatted.heap
             ELSE /\ frames' = [frames EXCEPT ![t] =
                       Except(f, HookError("on_manual_stop", 0))]
                  /\ UNCHANGED heap
    /\ UNCHANGED <<_message_history, execute_function_concurrently, turns_started>>

\* the completed result produced without the on_after_request emission
AfterRequestUnannounced(t) ==
    /\ frames[t].pc = "after_request"
    /\ LET f == frames[t]
           formatted == _format_response(heap, _message_history, ResultList(t),
                                         f.response, "completed")
       IN  /\ frames' = [frames EXCEPT ![t] =
                [f EXCEPT !.pc = "done", !.outcome = Returned(formatted.result)]]
           /\ heap' = formatted.heap
    /\ UNCHANGED <<_message_history, execute_function_concurrently, turns_started>>

\* the reply without tool calls: on_after_request, then the result
AfterRequest(t) ==
    /\ frames[t].pc = "after_request"
    /\ \E ok \in HookOutcomes :
         LET f == _trigger_hook(frames[t], "on_after_request", ok)
             formatted == _format_response(heap, _message_history, ResultList(t),
                                           f.response, "completed")
         IN  IF ok
             THEN /\ frames' = [frames EXCEPT ![t] =
                       [f EXCEPT !.pc = "done", !.outcome = Returned(formatted.result)]]
                  /\ heap' = formatted.heap
             ELSE /\ frames' = [frames EXCEPT ![t] =
                       Except(f, HookError("on_after_request", 0))]
                  /\ UNCHANGED heap
    /\ UNCHANGED <<_message_history, execute_function_concurrently, turns_started>>

\* the except clause: on_error, then raise e; a failing on_error callback raises
\* out of the clause instead
OnError(t) ==
    /\ frames[t].pc = "on_error"
    /\ \E ok \in HookOutcomes :
         LET f == _trigger_hook(frames[t], "on_error", ok) IN
         frames' = [frames EXCEPT ![t] =
            [f EXCEPT !.pc = "done",
                      !.outcome = IF ok THEN Raised(f.exc)
                                  ELSE Raised(HookError("on_error", 0))]]
    /\ UNCHANGED <<heap, _message_history, execute_function_concurrently, turns_started>>

\* ------------------------------------------------------------ environment
\* where the turn is when its stop is requested
StopPoint(f) ==
    IF f.pc = "dispatch" /\ \A i \in 1..Len(f.tasks) : f.tasks[i].pc = "start"
    THEN "before_dispatch"
    ELSE f.pc

\* request_stop() on the turn's cancellation token, from outside the turn
RequestStop(t) ==
    /\ InFlight(frames[t])
    /\ ~frames[t].stop
    /\ frames' = [frames EXCEPT ![t] = [@ EXCEPT !.stop = TRUE,
                                                 !.stop_at = StopPoint(frames[t])]]
    /\ UNCHANGED <<heap, _message_history, execute_function_concurrently, turns_started>>

\* ------------------------------------------------------------ specification
Step(t) ==
    \/ \E message \in UserMessages, history \in HistoryInputs :
          SendMessage(t, message, history)
    \/ BeforeRequest(t)
    \/ CallModel(t)
    \/ \E i \in 1..MaxCalls : TaskStart(t, i)
    \/ \E i \in 1..MaxCalls : TaskRun(t, i)
    \/ \E i \in 1..MaxCalls : TaskEndHook(t, i)
    \/ \E i \in 1..MaxCalls : TaskErrorHook(t, i)
    \/ DispatchReturn(t)
    \/ ManualStop(t)
    \/ AfterRequest(t)
    \/ OnError(t)
    \/ RequestStop(t)

\* at most one turn in flight on the agent instance
Next == Step(1)

Spec == Init /\ [][Next]_vars

\* what the two callers of the shared instance send: the second caller's message
\* differs from the first one's
SecondCallerMessages == {"u2"}

SharedHistories ==
    {[pytype |-> "list", items |-> s] :
        s \in {<<>>, <<AssistantMsg("a0")>>, <<[role |-> "user"]>>}}

\* the runs looked at when two callers share the instance: callbacks return and
\* the backend asks for at most one call, of get_current_time, in a reply
\* without text
SharedScope ==
    \A t \in Frames :
        /\ frames[t].hook_faults = {}
        /\ Len(frames[t].result.tool_calls) <= 1
        /\ \A k \in 1..Len(frames[t].result.tool_calls) :
              /\ frames[t].result.tool_calls[k].name = "get_current_time"
              /\ frames[t].result.content = NoneVal

\* two callers on one agent instance: the second may call while the first one's
\* turn is in flight, or after it
NextShared ==
    \/ \E message \in UserMessages, history \in SharedHistories :
          SendMessage(1, message, history) /\ SharedScope'
    \/ \E message \in SecondCallerMessages, history \in SharedHistories :
          SendMessageSecondCaller(2, message, history) /\ SharedScope'
    \/ \E t \in Frames : BeforeRequest(t) /\ SharedScope'
    \/ \E t \in Frames : CallModel(t) /\ SharedScope'
    \/ \E t \in Frames, i \in 1..MaxCalls : TaskStart(t, i) /\ SharedScope'
    \/ \E t \in Frames, i \in 1..MaxCalls : TaskRun(t, i) /\ SharedScope'
    \/ \E t \in Frames, i \in 1..MaxCalls : TaskEndHook(t, i) /\ SharedScope'
    \/ \E t \in Frames : DispatchReturn(t) /\ SharedScope'
    \/ \E t \in Frames : ManualStop(t) /\ SharedScope'
    \/ \E t \in Frames : AfterRequest(t) /\ SharedScope'
    \/ \E t \in Frames : OnError(t) /\ SharedScope'
    \/ \E t \in Frames : RequestStop(t) /\ SharedScope'

SpecShared == Init /\ [][NextShared]_vars

\* a conversation: a turn, then a turn seeded with the first one's simplified
\* history, one turn in flight at a time
NextSeeded ==
    \/ Step(1)
    \/ \E message \in UserMessages : SendMessageSeeded(1, message)

SpecSeeded == Init /\ [][NextSeeded]_vars

\* the runs in which every backend call, tool invocation and callback returns,
\* the prior history is valid and no stop is requested
ReturningScope ==
    /\ frames[1].hook_faults = {}
    /\ frames[1].exc = NoExc
    /\ ~frames[1].stop

\* the steps of the turn in those runs
ReturningSteps ==
    \/ BeforeRequest(1) /\ ReturningScope'
    \/ CallModel(1) /\ ReturningScope'
    \/ \E i \in 1..MaxCalls : TaskStart(1, i) /\ ReturningScope'
    \/ \E i \in 1..MaxCalls : TaskRun(1, i) /\ ReturningScope'
    \/ \E i \in 1..MaxCalls : TaskEndHook(1, i) /\ ReturningScope'
    \/ \E i \in 1..MaxCalls : TaskErrorHook(1, i) /\ ReturningScope'
    \/ DispatchReturn(1) /\ ReturningScope'
    \/ AfterRequest(1) /\ ReturningScope'

NextReturning ==
    \/ \E message \in UserMessages, history \in HistoryInputs :
          SendMessage(1, message, history) /\ ReturningScope'
    \/ ReturningSteps

\* every awaited phase returns: a step of the turn that can be taken is taken
SpecReturning == Init /\ [][NextReturning]_vars /\ WF_vars(ReturningSteps)

\* ====================================================================
\* Properties.  F is the frame of the one turn in flight under Spec, Prior the
\* caller's history argument, Store the History Store's list.
\* ====================================================================
F == frames[1]

Prior == heap[CallerList(1)]

Store == heap[_message_history]

ResultHistory == heap[F.outcome.result.messages]

HasResult == F.pc = "done" /\ F.outcome.kind = "result"

HasRaised == F.pc = "done" /\ F.outcome.kind = "raised"

AllTasksDone == \A i \in 1..Len(F.tasks) : F.tasks[i].pc = "done"

\* the backend is about to be called again after a tool-dispatch phase
NextRound == F.pc = "call_model" /\ F.rounds >= 1

MalformedEntry(m) ==
    ~IsDict(m) \/ "role" \notin DOMAIN m \/ "content" \notin DOMAIN m

MalformedPrior ==
    /\ F.pc # "idle"
    /\ F.history.pytype = "list"
    /\ \E i \in 1..Len(Prior) : MalformedEntry(Prior[i])

\* C1: for every malformed prior history (a non-empty list with an entry that is
\* no mapping or lacks role or content) send_message fails with a validation
\* error and the backend is never called during the turn.
C1_MalformedHistoryFailsValidation ==
    (MalformedPrior /\ F.pc = "done") =>
        /\ F.outcome.kind = "raised"
        /\ F.outcome.exc.type = "ValueError"
        /\ F.backend_calls = 0

ToolRepliesTo(messages, id) ==
    {j \in 1..Len(messages) :
        messages[j].role = "tool" /\ messages[j].tool_call_id = id}

\* C2: whenever the backend is called again after a tool-dispatch phase, the
\* working message list holds exactly one tool message for every tool call of
\* the preceding assistant reply, whatever tool name it carries.
C2_EveryToolCallAnswered ==
    NextRound =>
        \A k \in 1..Len(F.tool_calls) :
            Cardinality(ToolRepliesTo(F.messages, F.tool_calls[k].id)) = 1

\* what a tool call comes to, as text: the tool's value or its error's description
ToolOutcomeText(tool_call) ==
    LET out == InvokeTool(tool_call) IN
    IF out.ok THEN out.value ELSE out.exc.msg

\* the results of a batch as a function of the batch and of the callbacks'
\* outcomes, whatever the dispatch mode and the interleaving
ExpectedResults(f) ==
    [i \in 1..Len(Resolved(f.tool_calls)) |->
        [tool_call_id |-> Resolved(f.tool_calls)[i].id,
         name |-> Resolved(f.tool_calls)[i].name,
         result |-> IF f.tasks[i].err.type = "HookError"
                    THEN f.tasks[i].err.msg
                    ELSE ToolOutcomeText(Resolved(f.tool_calls)[i])]]

ExpectedToolMessages(f) ==
    [i \in 1..Len(ExpectedResults(f)) |->
        [role |-> "tool", tool_call_id |-> ExpectedResults(f)[i].tool_call_id,
         content |-> ExpectedResults(f)[i].result]]

LastN(s, n) == SubSeq(s, Len(s) - n + 1, Len(s))

\* C3: order preservation: in either dispatch mode and under every interleaving
\* and completion order, a batch's results are the same sequence (tool_call_id,
\* name, value, in request order), and the tool messages appended to the
\* history are in request order.
C3_OrderPreserved ==
    /\ (F.pc = "dispatch" /\ AllTasksDone /\ DispatchOutcome(F).raised = NoExc) =>
            DispatchOutcome(F).results = ExpectedResults(F)
    /\ NextRound =>
            /\ F.results = ExpectedResults(F)
            /\ LastN(Store, Len(F.results)) = ExpectedToolMessages(F)
            /\ LastN(F.messages, Len(F.results)) = ExpectedToolMessages(F)

C3_Witness ==
    /\ execute_function_concurrently
    /\ NextRound
    /\ Len(F.tasks) = 2
    /\ F.completion = <<2, 1>>
    /\ F.results[1].tool_call_id = F.tool_calls[1].id
    /\ F.results[2].tool_call_id = F.tool_calls[2].id

ToolFaultTypes == {"JSONDecodeError", "TypeError"}

CallIds(tool_calls) == {tool_calls[k].id : k \in 1..Len(tool_calls)}

C6_UserMessageRecorded ==
    /\ (F.pc = "call_model" \/ F.backend_calls > 0) =>
          /\ Len(Store) > Len(Prior)
          /\ Store[Len(Prior) + 1] = UserMsg(F.message)
    /\ HasResult =>
          /\ Len(ResultHistory) > Len(Prior)
          /\ SubSeq(ResultHistory, 1, Len(Prior)) = Prior
          /\ ResultHistory[Len(Prior) + 1] = UserMsg(F.message)

C6_Witness ==
    /\ HasResult
    /\ F.outcome.result.stop_reason = "manual_stop"
    /\ F.backend_calls = 1
    /\ F.rounds = 0
    /\ Prior = <<AssistantMsg("a0")>>
    /\ ResultHistory = <<AssistantMsg("a0"), UserMsg(F.message)>>

SystemPrefix(history) ==
    IF Len(history) > 0 /\ history[1].role = "system" THEN <<>>
    ELSE <<SystemMsg(SystemPrompt)>>

\* C7: idempotent re-submission: when the last entry of the prior history has
\* the new user message as its content, the outbound message list of the first
\* backend call holds that message once: it is the prior history behind the
\* system message, with nothing appended.
C7_NoDuplicateOnResubmission ==
    (/\ F.pc = "call_model"
     /\ F.backend_calls = 0
     /\ Len(Prior) > 0
     /\ Prior[Len(Prior)].content = F.message) =>
        F.messages = SystemPrefix(Prior) \o Prior

Roles(h) == [j \in 1..Len(h) |-> h[j].role]

\* the turn started with no prior history, the model asked for one call of a
\* registered tool, then gave a final text reply, and a result came back
ScenarioA ==
    /\ HasResult
    /\ Len(Prior) = 0
    /\ F.backend_calls = 2
    /\ F.rounds = 1
    /\ Len(F.tool_calls) = 1
    /\ F.tool_calls[1].name \in tool_map
    /\ Len(F.response.tool_calls) = 0
    /\ Truthy(F.response.content)

\* C8 (as claimed): in scenario A the result is completed and its history is
\* exactly system, user, assistant with the tool call, tool, final assistant.
C8_HistoryWithSystemMessage ==
    ScenarioA =>
        /\ F.outcome.result.stop_reason = "completed"
        /\ Roles(ResultHistory) = <<"system", "user", "assistant", "tool", "assistant">>

\* C8 (amended): in scenario A the result is completed and its history is
\* exactly the user message, the assistant message carrying the tool call, the
\* tool message with the result, and the final assistant text message; the
\* system message is part of the outbound message list only.
C8_HistoryWithoutSystemMessage ==
    ScenarioA =>
        /\ F.outcome.result.stop_reason = "completed"
        /\ Roles(ResultHistory) = <<"user", "assistant", "tool", "assistant">>
        /\ ResultHistory[1] = UserMsg(F.message)
        /\ "tool_calls" \in DOMAIN ResultHistory[2]
        /\ Len(ResultHistory[2].tool_calls) = 1
        /\ ResultHistory[2].tool_calls[1].id = F.tool_calls[1].id
        /\ ResultHistory[2].tool_calls[1].function.name = F.tool_calls[1].name
        /\ ResultHistory[3] = [role |-> "tool", tool_call_id |-> F.tool_calls[1].id,
                               content |-> F.results[1].result]
        /\ ResultHistory[4] = AssistantMsg(F.response.content)
        /\ F.outcome.result.output = F.response.content
        /\ Roles(F.messages) = <<"system", "user", "assistant", "tool", "assistant">>

C8_Witness ==
    /\ ScenarioA
    /\ F.tool_calls[1].name = "get_current_time"
    /\ Len(ResultHistory) = 4
    /\ ResultHistory[3].content = "12:00:00"

AbortingHookEvents ==
    {"on_before_request", "on_function_call_start", "on_function_call_end",
     "on_function_call_error", "on_manual_stop", "on_after_request"}

\* C9: a fault raised by a callback of on_before_request, on_function_call_start,
\* on_function_call_end, on_function_call_error, on_manual_stop or
\* on_after_request is never captured: the turn in which one faulted ends with a
\* fault, never with a result.
C9_HookFaultAbortsTurn ==
    (F.pc = "done" /\ F.hook_faults \cap AbortingHookEvents # {}) =>
        F.outcome.kind = "raised"

\* C10: whenever a turn aborts on an unrecovered fault, on_error is emitted once
\* and the fault reported to the caller is the original fault, also when the
\* on_error callback itself fails; no result is returned in that turn.
C10_OriginalFaultReported ==
    (F.pc = "done" /\ F.exc # NoExc) =>
        /\ F.hooks["on_error"] = 1
        /\ F.outcome.kind = "raised"
        /\ F.outcome.exc = F.exc

\* the places of a history that the simplified history keeps
Kept(h) ==
    {j \in 1..Len(h) :
        \/ h[j].role = "user"
        \/ h[j].role = "assistant" /\ Truthy(h[j].content)}

KeptRank(h, j) == Cardinality({i \in Kept(h) : i <= j})

\* C11: in every returned result the simplified history is the order-preserving
\* subsequence of the full history made of all user messages and of the
\* assistant messages whose content is non-empty text, each entry being role and
\* content only: no system message, no tool message, no tool_calls field.
C11_SimplifiedIsFilteredHistory ==
    HasResult =>
        LET simplified == F.outcome.result.simplified IN
        /\ Len(simplified) = Cardinality(Kept(ResultHistory))
        /\ \A j \in Kept(ResultHistory) :
              simplified[KeptRank(ResultHistory, j)] =
                  [role |-> ResultHistory[j].role,
                   content |-> ResultHistory[j].content]
        /\ \A k \in 1..Len(simplified) :
              /\ simplified[k].role \in {"user", "assistant"}
              /\ DOMAIN simplified[k] = {"role", "content"}

C11_Witness ==
    /\ HasResult
    /\ Len(ResultHistory) = 5
    /\ ResultHistory[1].role = "system"
    /\ "tool_calls" \in DOMAIN ResultHistory[3]
    /\ Truthy(ResultHistory[3].content)
    /\ ResultHistory[4].role = "tool"
    /\ ResultHistory[5].role = "assistant"
    /\ ~Truthy(ResultHistory[5].content)
    /\ F.outcome.result.simplified = <<UserMsg(F.message), AssistantMsg("a1")>>

\* the turn in flight was given the simplified history of the turn before it
Seeded == F.pc # "idle" /\ F.history.ref = SimplifiedList(1)

Seed == heap[SimplifiedList(1)]

\* C12: round trip of the simplified history: given as the prior history of the
\* following turn it is accepted by history validation, it is the head of that
\* turn's History Store from the start, and that turn's full history starts with
\* exactly its entries, in the same order, followed by the new user message.
C12_SimplifiedRoundTrip ==
    Seeded =>
        /\ Len(Seed) >= 1
        /\ F.exc.type # "ValueError"
        /\ Len(Store) > Len(Seed)
        /\ SubSeq(Store, 1, Len(Seed)) = Seed
        /\ HasResult =>
              /\ SubSeq(ResultHistory, 1, Len(Seed)) = Seed
              /\ ResultHistory[Len(Seed) + 1] = UserMsg(F.message)

C12_Witness ==
    /\ Seeded
    /\ HasResult
    /\ F.outcome.result.stop_reason = "completed"
    /\ Seed = <<AssistantMsg("a0"), UserMsg("u1"), AssistantMsg("a1")>>
    /\ ResultHistory = Seed \o <<UserMsg("u1"), AssistantMsg("a1")>>

\* the history argument of turn t, and the full history of its result
PriorOf(t) == heap[frames[t].history.ref]

ResultHistoryOf(t) == heap[frames[t].outcome.result.messages]

HasResultOf(t) == frames[t].pc = "done" /\ frames[t].outcome.kind = "result"

\* this step is a call of send_message that starts turn t, with the list the
\* caller made for it
Called(t) ==
    /\ frames[t].pc \in {"idle", "done"}
    /\ frames'[t].pc \notin {"idle", "done"}

\* C13: defensive copy: the list validation returns for a valid prior history
\* is another list than the caller's, with the same entries (the History Store
\* is that list plus the user message when the call reaches its first
\* suspension); from the call on, through a completed, stopped or failed turn
\* and after it, the caller's list keeps its entries; and the full history of
\* a result handed out never changes, whatever is appended to the History Store
\* afterwards.
C13_DefensiveCopy ==
    [][\A t \in Frames :
          /\ (Called(t) /\ frames'[t].pc = "before_request") =>
                /\ _message_history' # frames'[t].history.ref
                /\ heap'[_message_history'] =
                      Append(heap'[frames'[t].history.ref],
                             UserMsg(frames'[t].message))
          /\ (frames[t].pc # "idle" /\ ~Called(t)) =>
                /\ frames'[t].history = frames[t].history
                /\ heap'[frames[t].history.ref] = PriorOf(t)
          /\ (HasResultOf(t) /\ frames'[t].outcome = frames[t].outcome) =>
                heap'[frames[t].outcome.result.messages] = ResultHistoryOf(t)]_vars

\* the first caller's turn returned a result copied from the list that the
\* second caller's turn went on appending to, and neither caller's list changed
C13_Witness ==
    /\ HasResultOf(1)
    /\ HasResultOf(2)
    /\ PriorOf(1) = <<AssistantMsg("a0")>>
    /\ PriorOf(2) = <<>>
    /\ Len(ResultHistoryOf(2)) > Len(ResultHistoryOf(1))
    /\ SubSeq(ResultHistoryOf(2), 1, Len(ResultHistoryOf(1))) = ResultHistoryOf(1)
    /\ frames[1].outcome.result.messages # _message_history
    /\ Len(heap[_message_history]) > Len(ResultHistoryOf(1))

\* the messages turn t itself added to the working list after preparing it
OwnMessages(t) ==
    SubSeq(frames[t].messages,
           Len(SystemPrefix(PriorOf(t))) + Len(PriorOf(t)) + 2,
           Len(frames[t].messages))

\* C18: with at most one turn in flight on the instance, every returned full
\* history is the turn's prior history, then its user message, then the
\* messages the turn itself added, and nothing else; two turns interleaved on
\* one instance race on the History Store (the witness: a returned full history
\* holding the other turn's user message and lacking the turn's own).
C18_OneTurnInFlightOwnHistory ==
    \A t \in Frames :
        (HasResultOf(t) /\ ~frames[t].overlapped) =>
            ResultHistoryOf(t) =
                PriorOf(t) \o <<UserMsg(frames[t].message)>> \o OwnMessages(t)

C18_Witness ==
    /\ HasResultOf(1)
    /\ frames[1].overlapped
    /\ frames[1].message = "u1"
    /\ frames[2].message = "u2"
    /\ ResultHistoryOf(1) = <<UserMsg("u2"), AssistantMsg("a1")>>

\* C14 (as claimed): every backend call of a turn is preceded by its own
\* on_before_request emission: whenever the backend is about to be called the
\* event has been emitted once more than the backend has been called.
C14_EmittedBeforeEveryCall ==
    F.pc = "call_model" => F.hooks["on_before_request"] = F.backend_calls + 1

\* C14 (amended): on_before_request is emitted exactly once per turn, after the
\* user message is recorded and before the first backend call; the backend
\* calls that follow a tool round are not preceded by another emission.
C14_EmittedOncePerTurn ==
    /\ F.hooks["on_before_request"] <= 1
    /\ (F.pc = "call_model" \/ F.backend_calls > 0) =>
          /\ F.hooks["on_before_request"] = 1
          /\ "on_before_request" \notin F.hook_faults
    /\ F.hooks["on_before_request"] = 1 =>
          /\ Len(Store) > Len(Prior)
          /\ Store[Len(Prior) + 1] = UserMsg(F.message)

C14_Witness ==
    /\ HasResult
    /\ F.outcome.result.stop_reason = "completed"
    /\ F.rounds = 1
    /\ F.backend_calls = 2
    /\ F.hooks["on_before_request"] = 1

ManualStopResult == HasResult /\ F.outcome.result.stop_reason = "manual_stop"

\* C15: every turn that ends with stop_reason manual_stop, at whichever
\* checkpoint the stop was seen, has emitted on_manual_stop before returning,
\* has not emitted on_after_request and raised no error.
C15_ManualStopEmitsHook ==
    ManualStopResult =>
        /\ F.hooks["on_manual_stop"] >= 1
        /\ F.hooks["on_after_request"] = 0
        /\ F.exc = NoExc

\* the stop was seen at the checkpoint after the tool-dispatch phase: the last
\* backend call was followed by a dispatch
StoppedAtDispatch ==
    /\ ManualStopResult
    /\ F.rounds >= 1
    /\ F.backend_calls = F.rounds

\* C16: a stop seen at the tool-dispatch checkpoint discards nothing recorded
\* and records the stopped round all-or-nothing: the History Store does not
\* change from the beginning of the dispatch to its end, the returned full
\* history is the History Store as it was then (the working list without its
\* system message: prior history, user message, earlier rounds, and last the
\* reply that asked for the tools) and holds no tool message of the stopped
\* round, whatever the invocations of the round had come to.
C16_StoppedRoundAllOrNothing ==
    /\ [](StoppedAtDispatch =>
            /\ ResultHistory = Store
            /\ ResultHistory =
                  SubSeq(F.messages, Len(SystemPrefix(Prior)) + 1, Len(F.messages))
            /\ SubSeq(ResultHistory, 1, Len(Prior) + 1) =
                  Prior \o <<UserMsg(F.message)>>
            /\ ResultHistory[Len(ResultHistory)] = AssistantMessage(F.response)
            /\ Len(F.response.tool_calls) > 0
            /\ \A j \in 1..Len(ResultHistory) :
                  ResultHistory[j].role = "tool" =>
                      ResultHistory[j].tool_call_id \notin CallIds(F.response.tool_calls))
    /\ [][(F.pc = "dispatch" /\ (F'.pc = "dispatch" \/ StoppedAtDispatch')) =>
              /\ Store' = Store
              /\ StoppedAtDispatch' => ResultHistory' = Store]_vars

C16_Witness ==
    /\ StoppedAtDispatch
    /\ execute_function_concurrently
    /\ F.stop_at = "dispatch"
    /\ Len(F.tasks) = 2
    /\ F.tasks[1].ret.result = "12:00:00"
    /\ F.tasks[2].ret.result = "Sunny, 22C in Tokyo"
    /\ Len(ResultHistory) = Len(Prior) + 2

\* the invocations of the batch that raised out of _execute_tool
Faulting == {i \in 1..Len(F.tasks) : F.tasks[i].raised # NoExc}

\* C17: in concurrent mode, when an invocation raises an uncaught fault (a
\* failing on_function_call_start or on_function_call_error callback), nothing
\* is propagated while a sibling is still running; what reaches send_message
\* then is the fault of the earliest faulting request in request order, and no
\* tool message of the batch is in the history.
C17_ConcurrentFaultAfterAllDone ==
    /\ (execute_function_concurrently /\ F.pc = "dispatch") => F.exc = NoExc
    /\ (execute_function_concurrently /\ F.exc.origin > 0) =>
          /\ AllTasksDone
          /\ Faulting # {}
          /\ F.exc = F.tasks[Min(Faulting)].raised
          /\ \A j \in 1..Len(Store) :
                Store[j].role = "tool" =>
                    Store[j].tool_call_id \notin CallIds(F.tool_calls)

C17_Witness ==
    /\ execute_function_concurrently
    /\ HasRaised
    /\ Len(F.tasks) = 2
    /\ F.completion = <<2, 1>>
    /\ Faulting = {1, 2}
    /\ F.tasks[1].raised # F.tasks[2].raised
    /\ F.exc = F.tasks[1].raised

CompletedResult == HasResult /\ F.outcome.result.stop_reason = "completed"

\* C20: a completed result comes from the no-tool-call branch only: the last
\* entry of its full history is the assistant message of a reply without tool
\* calls, its output is that message's content, and on_after_request was
\* emitted exactly once, after that reply was appended (the event is not
\* emitted before the reply is in the History Store) and before the result was
\* produced (a turn whose emission failed has no result).
C20_CompletedFromFinalReply ==
    /\ CompletedResult =>
          /\ Len(F.response.tool_calls) = 0
          /\ ResultHistory[Len(ResultHistory)] = AssistantMsg(F.response.content)
          /\ F.outcome.result.output = F.response.content
          /\ F.hooks["on_after_request"] = 1
          /\ "on_after_request" \notin F.hook_faults
    /\ F.pc = "after_request" =>
          /\ F.hooks["on_after_request"] = 0
          /\ Len(F.response.tool_calls) = 0
          /\ Store[Len(Store)] = AssistantMsg(F.response.content)
    /\ F.hooks["on_after_request"] >= 1 =>
          /\ F.hooks["on_after_request"] = 1
          /\ Store[Len(Store)] = AssistantMsg(F.response.content)
    /\ (F.pc = "done" /\ "on_after_request" \in F.hook_faults) =>
          F.outcome.kind = "raised"

C20_Witness ==
    /\ CompletedResult
    /\ F.rounds = 1
    /\ F.backend_calls = 2
    /\ F.outcome.result.output = "a1"
    /\ ResultHistory[Len(ResultHistory)] = AssistantMsg("a1")
    /\ ResultHistory[Len(ResultHistory) - 1].role = "tool"

====
